---------------------------- MODULE Spec2Model ----------------------------
(***************************************************************************)
(* A model of pkg-manager:                                                 *)
(*                                                                         *)
(*   - the dependency resolver of src/core/monorepo.ts (topologicalSort,   *)
(*     getDependencyOrder, buildDependencies), checked under SpecGraph;    *)
(*   - the hash store of src/core/hash.ts (readHashStore, writeHashStore,  *)
(*     checkHashForDuplicate, savePackageHash), checked under Spec, and    *)
(*     two interleaved savePackageHash calls, checked under SpecRace;      *)
(*   - generateDirectoryHash of src/core/hash.ts, checked under SpecHash;  *)
(*   - the publish command (publishCommand), checked under SpecPublish.    *)
(*                                                                         *)
(* JavaScript values are modelled as follows.  A string is a TLA+ string;  *)
(* the only falsy string is "".  A Map is a function over its key set      *)
(* together with the sequence of its keys in insertion order.  An object   *)
(* used as a string-keyed dictionary whose keys are not array indices      *)
(* (version strings such as "1.0.0") is the sequence of its entries in     *)
(* insertion order, which is the order Object.entries enumerates.  Keys of  *)
(* such a dictionary are taken to be its own keys only: package names and  *)
(* versions that are member names of Object.prototype ("constructor",      *)
(* "__proto__") are outside the model.                                     *)
(***************************************************************************)
EXTENDS Integers, Sequences, FiniteSets, TLC

VARIABLES
    packages,       \* resolver: the MonorepoPackage[] handed to the call
    pc,             \* resolver: "start" | "sorted" | "ordered" | "building"
                    \*           | "built" | "exited"
    targetPackage,  \* resolver: the targetPackage argument of the call
    sortResult,     \* resolver: outcome of topologicalSort(packages)
    deps,           \* resolver: value of getDependencyOrder(targetPackage, packages)
    calls,          \* resolver: number of visit() invocations that call made
    running,        \* resolver: the package whose build child process is running
    built,          \* resolver: names whose build closed with code 0, in order
    file,           \* store: the file at hashStorePath
    lastOp,         \* store: the most recent operation, its arguments and result
    lastSaved,      \* store: per package, the version of the latest savePackageHash
    tree,           \* hashing: the directory at dirPath, as the file system lists it
    edit,           \* hashing: the edit made to the directory since it was last hashed
    digest,         \* hashing: outcome of the latest generateDirectoryHash(dirPath)
    prevDigest,     \* hashing: outcome of the call before that
    procs,          \* race: per invocation, its position in savePackageHash
    events,         \* race: the reads and writes of the store file, in order
    project,        \* publish: the config file and package.json of the project
    repo,           \* publish: package.json version, dist hash, git tags, registry
    pub,            \* publish: the current invocation of publishCommand
    succeeded       \* publish: hashes of the publishes that completed

graphVars == <<packages, pc, targetPackage, sortResult, deps, calls, running, built>>
storeVars == <<file, lastOp, lastSaved>>
hashVars == <<tree, edit, digest, prevDigest>>
raceVars == <<procs, events>>
\* What the actions of one component leave alone.
publishVars == <<project, repo, pub, succeeded>>
outsideGraph == <<storeVars, hashVars, raceVars, publishVars>>
outsideStore == <<graphVars, hashVars, raceVars, publishVars>>
outsideHash == <<graphVars, storeVars, raceVars, publishVars>>
outsideRace == <<graphVars, hashVars, lastOp, lastSaved, publishVars>>
outsidePublish == <<graphVars, hashVars, raceVars, lastOp, lastSaved>>
vars == <<graphVars, storeVars, hashVars, raceVars, publishVars>>

-----------------------------------------------------------------------------
(***************************************************************************)
(* Bounds of the model.                                                    *)
(***************************************************************************)
MaxPkgs == 3        \* longest package list
MaxDeps == 2        \* longest dependsOn array of one package
MaxEdges == 3       \* most dependsOn entries in one package list
MaxVersions == 2    \* number of distinct version strings
MaxHashes == 2      \* number of distinct content hashes

\* Package names a list can use; "" is the empty (falsy) string.
PackageNames == {"", "a", "b", "c"}
\* A name that no package of a list carries.
ExternalName == "ext"
DepNames == PackageNames \cup {ExternalName}

None == "<none>"    \* no name / undefined

-----------------------------------------------------------------------------
(***************************************************************************)
(* Generic helpers.                                                        *)
(***************************************************************************)
Range(s) == {s[i] : i \in 1..Len(s)}

SeqsUpTo(S, n) == UNION {[1..k -> S] : k \in 0..n}

\* JavaScript truthiness of a string: only "" is falsy.
Falsy(name) == name = ""

-----------------------------------------------------------------------------
(***************************************************************************)
(* topologicalSort (monorepo.ts 56-114).                                   *)
(***************************************************************************)

\* Keys of a Map filled by `for (const pkg of packages) map.set(pkg.name, ..)`
\* in insertion order: a key keeps the position of its first set().
RECURSIVE MapKeys(_, _, _)
MapKeys(pkgs, i, keys) ==
    IF i > Len(pkgs) THEN keys
    ELSE MapKeys(pkgs, i + 1,
                 IF pkgs[i].name \in Range(keys) THEN keys
                 ELSE Append(keys, pkgs[i].name))

\* The Map after the loop: the last set() of a key wins.
nameToPackage(pkgs) ==
    [n \in {pkgs[i].name : i \in 1..Len(pkgs)} |->
        pkgs[CHOOSE i \in 1..Len(pkgs) :
                /\ pkgs[i].name = n
                /\ \A j \in (i + 1)..Len(pkgs) : pkgs[j].name # n]]

\* nameToPackage.has(dep)
HasDep(ntp, dep) == dep \in DOMAIN ntp

\* The first loop: inDegree 0 and an empty dependents array for every name.
InitialMaps(pkgs) ==
    LET names == {pkgs[i].name : i \in 1..Len(pkgs)}
    IN  [inDegree |-> [n \in names |-> 0], dependents |-> [n \in names |-> <<>>]]

\* The inner loop over pkg.dependsOn of the second loop (lines 69-74).
\* `dependents.get(dep)?.push(..)` does nothing when dep is not a key.
RECURSIVE CountDeps(_, _, _, _, _)
CountDeps(name, dependsOn, j, ntp, m) ==
    IF j > Len(dependsOn) THEN m
    ELSE LET dep == dependsOn[j]
         IN  CountDeps(name, dependsOn, j + 1, ntp,
                IF HasDep(ntp, dep) /\ dep \in DOMAIN m.dependents
                THEN [inDegree |-> [m.inDegree EXCEPT ![name] = @ + 1],
                      dependents |-> [m.dependents EXCEPT ![dep] = Append(@, name)]]
                ELSE IF HasDep(ntp, dep)
                THEN [m EXCEPT !.inDegree = [@ EXCEPT ![name] = @ + 1]]
                ELSE m)

\* The second loop over packages (lines 67-76).
RECURSIVE BuildGraph(_, _, _, _)
BuildGraph(pkgs, i, ntp, m) ==
    IF i > Len(pkgs) THEN m
    ELSE BuildGraph(pkgs, i + 1, ntp,
                    CountDeps(pkgs[i].name, pkgs[i].dependsOn, 1, ntp, m))

\* Lines 78-84 with the names of degree 0 taken last to first.
RECURSIVE InitialQueue_Reversed(_, _, _)
InitialQueue_Reversed(keys, i, inDegree) ==
    IF i > Len(keys) THEN <<>>
    ELSE LET rest == InitialQueue_Reversed(keys, i + 1, inDegree)
         IN  IF inDegree[keys[i]] = 0 THEN rest \o <<keys[i]>> ELSE rest

\* Lines 78-84: the names of degree 0 in the Map's iteration order.
RECURSIVE InitialQueue(_, _, _)
InitialQueue(keys, i, inDegree) ==
    IF i > Len(keys) THEN <<>>
    ELSE LET rest == InitialQueue(keys, i + 1, inDegree)
         IN  IF inDegree[keys[i]] = 0 THEN <<keys[i]>> \o rest ELSE rest

\* Lines 99-106: decrement every dependent, enqueue those reaching 0.
RECURSIVE Relax(_, _, _, _)
Relax(dependentsOfName, k, queue, inDegree) ==
    IF k > Len(dependentsOfName) THEN [queue |-> queue, inDegree |-> inDegree]
    ELSE LET dependent == dependentsOfName[k]
             newDegree == inDegree[dependent] - 1
         IN  Relax(dependentsOfName, k + 1,
                   IF newDegree = 0 THEN Append(queue, dependent) ELSE queue,
                   [inDegree EXCEPT ![dependent] = newDegree])

\* Lines 88-107: the while loop.  `if (!name) continue` skips undefined, which
\* shift() never returns on a non-empty queue, and the empty string.
RECURSIVE KahnLoop(_, _, _, _, _)
KahnLoop(queue, sorted, inDegree, dependents, ntp) ==
    IF queue = <<>> THEN sorted
    ELSE LET name == Head(queue)
             rest == Tail(queue)
         IN  IF Falsy(name) THEN KahnLoop(rest, sorted, inDegree, dependents, ntp)
             ELSE LET r == Relax(dependents[name], 1, rest, inDegree)
                  IN  KahnLoop(r.queue, Append(sorted, ntp[name]),
                               r.inDegree, dependents, ntp)

\* The sorted array when the loop ends (line 108).
KahnSorted(pkgs) ==
    LET ntp == nameToPackage(pkgs)
        m == BuildGraph(pkgs, 1, ntp, InitialMaps(pkgs))
        queue == InitialQueue(MapKeys(pkgs, 1, <<>>), 1, m.inDegree)
    IN  KahnLoop(queue, <<>>, m.inDegree, m.dependents, ntp)

\* Lines 109-113 without the length check.
CycleCheck_Never(sorted, pkgs) == [threw |-> FALSE, sorted |-> sorted]

\* Lines 109-113: throw new Error('Circular dependency detected ...').
CycleCheck(sorted, pkgs) ==
    IF Len(sorted) # Len(pkgs)
    THEN [threw |-> TRUE, sorted |-> <<>>]
    ELSE [threw |-> FALSE, sorted |-> sorted]

topologicalSort(pkgs) == CycleCheck(KahnSorted(pkgs), pkgs)

-----------------------------------------------------------------------------
(***************************************************************************)
(* getDependencyOrder (monorepo.ts 116-156).                               *)
(***************************************************************************)

\* `if (name !== targetPackage) result.push(pkg)` without the comparison.
Emit_TargetToo(st, name, pkg, target) == [st EXCEPT !.result = Append(@, pkg)]

\* Lines 148-150.
Emit(st, name, pkg, target) ==
    IF name # target THEN [st EXCEPT !.result = Append(@, pkg)] ELSE st

RECURSIVE visit(_, _, _, _)
RECURSIVE visitAll(_, _, _, _, _)

\* visit that pushes the package before it walks its dependsOn array.
visit_PushFirst(name, st, ntp, target) ==
    LET entered == [st EXCEPT !.calls = @ + 1]
    IN  IF name \in entered.visited THEN entered
        ELSE LET marked == [entered EXCEPT !.visited = @ \cup {name}]
             IN  IF name \notin DOMAIN ntp THEN marked
                 ELSE LET pkg == ntp[name]
                      IN  visitAll(pkg.dependsOn, 1, Emit(marked, name, pkg, target),
                                   ntp, target)

\* function visit(name), lines 133-151; st holds the closure's visited set and
\* result array, and counts the invocations of visit.
visit(name, st, ntp, target) ==
    LET entered == [st EXCEPT !.calls = @ + 1]
    IN  IF name \in entered.visited THEN entered
        ELSE LET marked == [entered EXCEPT !.visited = @ \cup {name}]
             IN  IF name \notin DOMAIN ntp THEN marked
                 ELSE LET pkg == ntp[name]
                          after == visitAll(pkg.dependsOn, 1, marked, ntp, target)
                      IN  Emit(after, name, pkg, target)

\* The loop over pkg.dependsOn that stops after the first dependency.
visitAll_FirstOnly(dependsOn, j, st, ntp, target) ==
    IF j > Len(dependsOn) \/ j > 1 THEN st
    ELSE visit(dependsOn[j], st, ntp, target)

\* for (const dep of pkg.dependsOn) visit(dep), lines 142-146.
visitAll(dependsOn, j, st, ntp, target) ==
    IF j > Len(dependsOn) THEN st
    ELSE visitAll(dependsOn, j + 1, visit(dependsOn[j], st, ntp, target), ntp, target)

\* The whole call, with the number of visit() invocations it made.
DependencyWalk(target, pkgs) ==
    LET ntp == nameToPackage(pkgs)
        empty == [visited |-> {}, result |-> <<>>, calls |-> 0]
    IN  IF target \notin DOMAIN ntp THEN empty
        ELSE visit(target, empty, ntp, target)

getDependencyOrder(target, pkgs) == DependencyWalk(target, pkgs).result

-----------------------------------------------------------------------------
(***************************************************************************)
(* The resolver as a state machine: one call of topologicalSort, of        *)
(* getDependencyOrder or of buildDependencies on a package list.           *)
(***************************************************************************)

\* The dependsOn arrays of a list of n packages holding at most `budget`
\* entries together; an absent dependsOn behaves as the empty array
\* (`if (pkg.dependsOn)`).
RECURSIVE DependsOnLists(_, _)
DependsOnLists(n, budget) ==
    IF n = 0 THEN {<<>>}
    ELSE LET most == IF budget < MaxDeps THEN budget ELSE MaxDeps
         IN  UNION {{<<d>> \o rest : rest \in DependsOnLists(n - 1, budget - Len(d))} :
                        d \in SeqsUpTo(DepNames, most)}

\* MonorepoPackage (config.ts): name, path and dependsOn.  Every record of a
\* list gets the path of its position, so that two records of one name remain
\* two different records.
MakePackages(names, dependsOns) ==
    [i \in 1..Len(names) |->
        [name |-> names[i], path |-> i, dependsOn |-> dependsOns[i]]]

NoSortResult == [threw |-> FALSE, sorted |-> <<>>]

InitGraph ==
    /\ \E n \in 0..MaxPkgs :
         \E names \in [1..n -> PackageNames], ds \in DependsOnLists(n, MaxEdges) :
            packages = MakePackages(names, ds)
    /\ pc = "start"
    /\ targetPackage = None
    /\ sortResult = NoSortResult
    /\ deps = <<>>
    /\ calls = 0
    /\ running = None
    /\ built = <<>>

\* topologicalSort(packages)
TopologicalSortCall ==
    /\ pc = "start"
    /\ sortResult' = topologicalSort(packages)
    /\ pc' = "sorted"
    /\ UNCHANGED <<packages, targetPackage, deps, calls, running, built, outsideGraph>>

\* getDependencyOrder(t, packages)
GetDependencyOrderCall(t) ==
    /\ pc = "start"
    /\ targetPackage' = t
    /\ deps' = getDependencyOrder(t, packages)
    /\ calls' = DependencyWalk(t, packages).calls
    /\ pc' = "ordered"
    /\ UNCHANGED <<packages, sortResult, running, built, outsideGraph>>

\* buildDependencies(t, packages) up to its first await (line 175).
BuildDependenciesCall(t) ==
    /\ pc = "start"
    /\ targetPackage' = t
    /\ deps' = getDependencyOrder(t, packages)
    /\ calls' = DependencyWalk(t, packages).calls
    /\ pc' = "building"
    /\ UNCHANGED <<packages, sortResult, running, built, outsideGraph>>

\* The dependency the for loop of buildDependencies builds next (lines 177-180).
NextToBuild_Last(ds, done) == ds[Len(ds) - Len(done)].name

NextToBuild(ds, done) == ds[Len(done) + 1].name

\* `await buildPackage(dep.name, cwd)`: runCmd spawns `pnpm --filter <name> build`.
BuildPackageSpawn ==
    /\ pc = "building"
    /\ running = None
    /\ Len(built) < Len(deps)
    /\ running' = NextToBuild(deps, built)
    /\ UNCHANGED <<packages, pc, targetPackage, sortResult, deps, calls, built, outsideGraph>>

\* The child process closes: with code 0 the loop goes on, otherwise
\* runCmdOrExit ends the process with exit code 1 (runCmd.ts, hash.ts 465-479).
BuildPackageClose(ok) ==
    /\ pc = "building"
    /\ running # None
    /\ IF ok
       THEN /\ built' = Append(built, running)
            /\ pc' = pc
       ELSE /\ built' = built
            /\ pc' = "exited"
    /\ running' = None
    /\ UNCHANGED <<packages, targetPackage, sortResult, deps, calls, outsideGraph>>

\* The for loop is exhausted and buildDependencies returns.
BuildDependenciesReturn ==
    /\ pc = "building"
    /\ running = None
    /\ Len(built) = Len(deps)
    /\ pc' = "built"
    /\ UNCHANGED <<packages, targetPackage, sortResult, deps, calls, running, built, outsideGraph>>

NextG ==
    \/ TopologicalSortCall
    \/ \E t \in DepNames : GetDependencyOrderCall(t)
    \/ \E t \in DepNames : BuildDependenciesCall(t)
    \/ BuildPackageSpawn
    \/ \E ok \in BOOLEAN : BuildPackageClose(ok)
    \/ BuildDependenciesReturn

-----------------------------------------------------------------------------
(***************************************************************************)
(* The hash store (hash.ts 13-20, 56-119).                                 *)
(*                                                                         *)
(* HashStore is {packages: {[name]: {versions: {[version]: hash},          *)
(* lastVersion?}}}.  `packages` is modelled as a function over             *)
(* StorePackages whose value says whether the key is present; `versions`   *)
(* is the sequence of its entries in insertion order.                      *)
(***************************************************************************)
StorePackages == {"pkg-a", "pkg-b"}
VersionList == <<"1.0.0", "1.0.1", "1.1.0", "2.0.0">>
HashList == <<"h1", "h2", "h3", "h4">>
Versions == {VersionList[i] : i \in 1..MaxVersions}
Hashes == {HashList[i] : i \in 1..MaxHashes}

\* The versions a package is saved at: all of them for pkg-a, and a single one
\* for pkg-b, which stands for any other package of the store (the functions
\* treat all package names alike).
VersionsOf(p) == IF p = "pkg-a" THEN Versions ELSE {VersionList[1]}

\* store.packages[name] === undefined
NoRecord == [present |-> FALSE, versions |-> <<>>, lastVersion |-> None]

\* { packages: {} }
EmptyStore == [packages |-> [p \in StorePackages |-> NoRecord]]

\* The file at hashStorePath: absent, or text that is not JSON
\* ("invalid-json"), or JSON that hashStoreSchema rejects ("wrong-schema"),
\* or the JSON text of a HashStore ("store").
MissingFile == [exists |-> FALSE, shape |-> "none", store |-> EmptyStore]
BadFile(shape) == [exists |-> TRUE, shape |-> shape, store |-> EmptyStore]
BadShapes == {"invalid-json", "wrong-schema"}

\* Lines 64-66: JSON.parse throws on text that is not JSON, and
\* hashStoreSchema.parse throws on a value that does not match the schema.
ParseFile(f) ==
    IF f.shape = "invalid-json" THEN [threw |-> TRUE, store |-> EmptyStore]
    ELSE IF f.shape # "store" THEN [threw |-> TRUE, store |-> EmptyStore]
    ELSE [threw |-> FALSE, store |-> f.store]

\* readHashStore without the try/catch around the parse.
readHashStore_NoCatch(f) ==
    IF ~f.exists THEN [threw |-> FALSE, store |-> EmptyStore] ELSE ParseFile(f)

\* readHashStore (lines 58-70).
readHashStore(f) ==
    IF ~f.exists THEN [threw |-> FALSE, store |-> EmptyStore]
    ELSE LET parsed == ParseFile(f)
         IN  IF parsed.threw THEN [threw |-> FALSE, store |-> EmptyStore]
             ELSE parsed

\* writeHashStore (lines 72-78): the file now holds JSON.stringify(store).
writeHashStore(store) == [exists |-> TRUE, shape |-> "store", store |-> store]

\* Index of the entry of key `version` in a versions object, 0 when absent.
KeyIndex(versions, version) ==
    IF \E i \in 1..Len(versions) : versions[i].version = version
    THEN CHOOSE i \in 1..Len(versions) : versions[i].version = version
    ELSE 0

\* `versions[version] = hash` that forgets the entries already there.
SetEntry_Replace(versions, version, hash) == <<[version |-> version, hash |-> hash]>>

\* `versions[version] = hash` that never overwrites an entry already there.
SetEntry_KeepOld(versions, version, hash) ==
    IF KeyIndex(versions, version) # 0 THEN versions
    ELSE Append(versions, [version |-> version, hash |-> hash])

\* `pkgStore.versions[version] = hash` (line 115): an existing key keeps its
\* place and gets the new value, a new key goes last.
SetEntry(versions, version, hash) ==
    LET i == KeyIndex(versions, version)
    IN  IF i # 0 THEN [versions EXCEPT ![i].hash = hash]
        ELSE Append(versions, [version |-> version, hash |-> hash])

\* Lines 92-98: the first entry of Object.entries(versions) with the hash.
RECURSIVE FirstMatch(_, _, _)
FirstMatch(versions, currentHash, i) ==
    IF i > Len(versions)
    THEN [threw |-> FALSE, isDuplicate |-> FALSE, existingVersion |-> None]
    ELSE IF versions[i].hash = currentHash
    THEN [threw |-> FALSE, isDuplicate |-> TRUE, existingVersion |-> versions[i].version]
    ELSE FirstMatch(versions, currentHash, i + 1)

\* The lookup `store.packages[packageName]` that takes any package's record.
Lookup_AnyPackage(store, packageName) ==
    IF \E q \in StorePackages : store.packages[q].present
    THEN store.packages[CHOOSE q \in StorePackages : store.packages[q].present]
    ELSE NoRecord

\* store.packages[packageName] (lines 86, 109, 113).
Lookup(store, packageName) == store.packages[packageName]

\* checkHashForDuplicate (lines 80-99); an exception of readHashStore would
\* propagate to the caller.
checkHashForDuplicate(f, packageName, currentHash) ==
    LET read == readHashStore(f)
        packageHashes == Lookup(read.store, packageName)
    IN  IF read.threw
        THEN [threw |-> TRUE, isDuplicate |-> FALSE, existingVersion |-> None]
        ELSE IF ~packageHashes.present
        THEN [threw |-> FALSE, isDuplicate |-> FALSE, existingVersion |-> None]
        ELSE FirstMatch(packageHashes.versions, currentHash, 1)

\* Line 116 that leaves lastVersion as it was.
SetLastVersion_Skip(pkgStore, version) == pkgStore

\* pkgStore.lastVersion = version (line 116).
SetLastVersion(pkgStore, version) == [pkgStore EXCEPT !.lastVersion = version]

\* Lines 109-116 that start the package's record afresh.
ModifiedStore_FreshRecord(store, packageName, version, hash) ==
    [packages |-> [store.packages EXCEPT ![packageName] =
        [present |-> TRUE, versions |-> <<[version |-> version, hash |-> hash]>>,
         lastVersion |-> version]]]

\* Lines 109-116 of savePackageHash: the store object between readHashStore
\* (line 107) and writeHashStore (line 118).
ModifiedStore(store, packageName, version, hash) ==
    LET created == IF ~Lookup(store, packageName).present
                   THEN [present |-> TRUE, versions |-> <<>>, lastVersion |-> None]
                   ELSE Lookup(store, packageName)
        pkgStore == SetLastVersion(
                        [created EXCEPT !.versions = SetEntry(@, version, hash)],
                        version)
    IN  [packages |-> [store.packages EXCEPT ![packageName] = pkgStore]]

\* savePackageHash (lines 101-119): the file it leaves, or the exception of
\* readHashStore.
savePackageHash(f, packageName, version, hash) ==
    LET read == readHashStore(f)
    IN  IF read.threw THEN [threw |-> TRUE, file |-> f]
        ELSE [threw |-> FALSE,
              file |-> writeHashStore(
                          ModifiedStore(read.store, packageName, version, hash))]

-----------------------------------------------------------------------------
(***************************************************************************)
(* The hash store as a state machine: calls of savePackageHash and         *)
(* checkHashForDuplicate on one hashStorePath, one at a time, and the      *)
(* file being removed or damaged between calls (the default path lies      *)
(* under node_modules).                                                    *)
(***************************************************************************)
NoPrev == [kind |-> "none", pkg |-> None, version |-> None, hash |-> None]

NoOp ==
    [kind |-> "none", pkg |-> None, version |-> None, hash |-> None,
     before |-> MissingFile, threw |-> FALSE, isDuplicate |-> FALSE,
     existingVersion |-> None, prev |-> NoPrev]

\* What a checkHashForDuplicate call remembers of the operation before it.
Summary(op) == [kind |-> op.kind, pkg |-> op.pkg, version |-> op.version, hash |-> op.hash]

InitStore ==
    /\ file = MissingFile
    /\ lastOp = NoOp
    /\ lastSaved = [p \in StorePackages |-> None]

\* savePackageHash(hashStorePath, p, v, h)
SavePackageHash(p, v, h) ==
    LET r == savePackageHash(file, p, v, h)
    IN  /\ file' = r.file
        /\ lastOp' = [NoOp EXCEPT !.kind = "save", !.pkg = p, !.version = v,
                                  !.hash = h, !.before = file, !.threw = r.threw]
        /\ lastSaved' = [lastSaved EXCEPT ![p] = v]
        /\ UNCHANGED outsideStore

\* checkHashForDuplicate(hashStorePath, p, h)
CheckHashForDuplicate(p, h) ==
    LET r == checkHashForDuplicate(file, p, h)
    IN  /\ lastOp' = [NoOp EXCEPT !.kind = "check", !.pkg = p, !.hash = h,
                                  !.before = file, !.threw = r.threw,
                                  !.isDuplicate = r.isDuplicate,
                                  !.existingVersion = r.existingVersion,
                                  !.prev = Summary(lastOp)]
        /\ UNCHANGED <<file, lastSaved, outsideStore>>

\* The file is deleted (existsSync becomes false, line 59).
StoreFileRemoved ==
    /\ file.exists
    /\ file' = MissingFile
    /\ lastOp' = [NoOp EXCEPT !.kind = "remove", !.before = file']
    /\ UNCHANGED <<lastSaved, outsideStore>>

\* The file is overwritten with text readHashStore cannot parse (lines 63-69).
StoreFileCorrupted(shape) ==
    /\ file # BadFile(shape)
    /\ file' = BadFile(shape)
    /\ lastOp' = [NoOp EXCEPT !.kind = "corrupt", !.before = file']
    /\ UNCHANGED <<lastSaved, outsideStore>>

Next ==
    \/ \E p \in StorePackages, h \in Hashes : \E v \in VersionsOf(p) : SavePackageHash(p, v, h)
    \/ \E p \in StorePackages, h \in Hashes : CheckHashForDuplicate(p, h)
    \/ StoreFileRemoved
    \/ \E shape \in BadShapes : StoreFileCorrupted(shape)

-----------------------------------------------------------------------------
(***************************************************************************)
(* Two invocations of the tool that call savePackageHash on one            *)
(* hashStorePath.  A call reads the file (readHashStore, line 107),        *)
(* changes the object it parsed, and writes it back (writeHashStore, line  *)
(* 118); another process can run between the read and the write.           *)
(***************************************************************************)
Invocations == {1, 2}

IdleProc == [at |-> "idle", pkg |-> None, version |-> None, hash |-> None,
             seen |-> MissingFile, store |-> EmptyStore]

\* A store file holding one entry.
OneEntryFile(p, v, h) == writeHashStore(ModifiedStore(EmptyStore, p, v, h))

InitRace ==
    /\ \/ file = MissingFile
       \/ \E shape \in BadShapes : file = BadFile(shape)
       \/ \E p \in StorePackages, h \in Hashes : \E v \in VersionsOf(p) :
             file = OneEntryFile(p, v, h)
    /\ procs = [i \in Invocations |-> IdleProc]
    /\ events = <<>>

\* Lines 107-116 of savePackageHash(hashStorePath, p, v, h) in invocation i.
SaveRead(i, p, v, h) ==
    /\ procs[i].at = "idle"
    /\ LET read == readHashStore(file)
       IN  procs' = [procs EXCEPT ![i] =
                        [at |-> IF read.threw THEN "threw" ELSE "read",
                         pkg |-> p, version |-> v, hash |-> h, seen |-> file,
                         store |-> ModifiedStore(read.store, p, v, h)]]
    /\ events' = Append(events, [by |-> i, kind |-> "read"])
    /\ UNCHANGED <<file, outsideRace>>

\* Line 118 of the same call.
SaveWrite(i) ==
    /\ procs[i].at = "read"
    /\ file' = writeHashStore(procs[i].store)
    /\ procs' = [procs EXCEPT ![i].at = "done"]
    /\ events' = Append(events, [by |-> i, kind |-> "write"])
    /\ UNCHANGED outsideRace

NextRace ==
    \/ \E i \in Invocations, p \in StorePackages, h \in Hashes :
          \E v \in VersionsOf(p) : SaveRead(i, p, v, h)
    \/ \E i \in Invocations : SaveWrite(i)

-----------------------------------------------------------------------------
(***************************************************************************)
(* generateDirectoryHash (hash.ts 22-54).                                  *)
(*                                                                         *)
(* A file name, a relative path and a file's content are sequences of      *)
(* one-character strings.  A directory is the sequence of its entries in   *)
(* the order readdirSync returns them; an entry is a file with a content   *)
(* or a directory with items.  SHA-256 is taken to be collision-free: the  *)
(* digest stands for the byte stream the updates fed to it.                *)
(***************************************************************************)
MaxFiles == 2       \* most files in the hashed tree

\* The characters of names and contents, in the order of their code units.
CharList == <<"/", "a", "b", "d">>
CodeUnit(c) == CHOOSE i \in 1..Len(CharList) : CharList[i] = c

FileNames == {<<"a">>, <<"b">>, <<"a", "b">>, <<"b", "a">>, <<"a", "b", "a">>}
DirNames == {<<"d">>}
Bytes == {"a", "b"}
\* File contents: empty, or one byte.
Contents == {<<>>} \cup {<<byte>> : byte \in Bytes}

FileEntry(name, content) ==
    [name |-> name, isDirectory |-> FALSE, content |-> content, items |-> <<>>]
DirEntry(name, items) ==
    [name |-> name, isDirectory |-> TRUE, content |-> <<>>, items |-> items]

MissingDir == [exists |-> FALSE, items |-> <<>>]
Directory(items) == [exists |-> TRUE, items |-> items]

\* The default comparison of Array.prototype.sort on strings: by code units,
\* a proper prefix first.
NameLess(x, y) ==
    \/ \E i \in 1..Len(x) :
          /\ i <= Len(y)
          /\ \A k \in 1..(i - 1) : x[k] = y[k]
          /\ CodeUnit(x[i]) < CodeUnit(y[i])
    \/ /\ Len(x) < Len(y)
       /\ \A k \in 1..Len(x) : x[k] = y[k]

\* Puts an entry into a sorted listing, after the entries not greater than it.
RECURSIVE InsertSorted(_, _)
InsertSorted(item, sorted) ==
    IF sorted = <<>> THEN <<item>>
    ELSE IF NameLess(item.name, sorted[1].name)
         THEN <<item>> \o sorted
         ELSE <<sorted[1]>> \o InsertSorted(item, Tail(sorted))

\* readdirSync(currentPath).sort() with the sort left out.
SortItems_Unsorted(items, i, sorted) == items

\* readdirSync(currentPath).sort(), line 31.
RECURSIVE SortItems(_, _, _)
SortItems(items, i, sorted) ==
    IF i > Len(items) THEN sorted
    ELSE SortItems(items, i + 1, InsertSorted(items[i], sorted))

\* path.join(relativePath, item)
join(relativePath, item) == relativePath \o <<"/">> \o item

\* Line 34.
ItemRelativePath(relativePath, item) ==
    IF relativePath # <<>> THEN join(relativePath, item) ELSE item

RECURSIVE collectFiles(_, _, _)
RECURSIVE CollectItems(_, _, _, _)

\* The for loop of collectFiles, lines 32-41.  An element of files carries,
\* next to the relative path the code pushes, the content readFileSync
\* returns for that path at line 48.
CollectItems(items, k, relativePath, files) ==
    IF k > Len(items) THEN files
    ELSE LET item == items[k]
             itemRelativePath == ItemRelativePath(relativePath, item.name)
         IN  IF item.isDirectory
             THEN CollectItems(items, k + 1, relativePath,
                               collectFiles(item.items, itemRelativePath, files))
             ELSE CollectItems(items, k + 1, relativePath,
                               Append(files, [path |-> itemRelativePath,
                                              content |-> item.content]))

\* function collectFiles(currentPath, relativePath), lines 30-42.
collectFiles(listing, relativePath, files) ==
    CollectItems(SortItems(listing, 1, <<>>), 1, relativePath, files)

\* Lines 49-50: the two updates made for one file.
Update(h, f) ==
    [chunks |-> h.chunks \o <<f.path, f.content>>,
     stream |-> h.stream \o f.path \o f.content]

\* The loop over files, lines 46-51.
RECURSIVE UpdateAll(_, _, _)
UpdateAll(files, k, h) ==
    IF k > Len(files) THEN h
    ELSE UpdateAll(files, k + 1, Update(h, files[k]))

\* No call of generateDirectoryHash yet.
NoDigest == [called |-> FALSE, threw |-> FALSE, chunks |-> <<>>, stream |-> <<>>,
             pairs |-> {}, edit |-> None]

generateDirectoryHash(dir) ==
    IF ~dir.exists
    THEN [threw |-> TRUE, chunks |-> <<>>, stream |-> <<>>]
    ELSE LET h == UpdateAll(collectFiles(dir.items, <<>>, <<>>), 1,
                            [chunks |-> <<>>, stream |-> <<>>])
         IN  [threw |-> FALSE, chunks |-> h.chunks, stream |-> h.stream]

-----------------------------------------------------------------------------
(***************************************************************************)
(* Hashing as a state machine: a directory that is hashed, then listed in  *)
(* another order or changed by one edit, then hashed again.                *)
(***************************************************************************)
InsertAt(s, p, e) == SubSeq(s, 1, p - 1) \o <<e>> \o SubSeq(s, p, Len(s))
RemoveAt(s, p) == SubSeq(s, 1, p - 1) \o SubSeq(s, p + 1, Len(s))
SwapAt(s, p) == [s EXCEPT ![p] = s[p + 1], ![p + 1] = s[p]]

\* Listings of k files with distinct names.
FileListings(k) ==
    {[i \in 1..k |-> FileEntry(ns[i], cs[i])] :
        ns \in {f \in [1..k -> FileNames] : \A i, j \in 1..k : i # j => f[i] # f[j]},
        cs \in [1..k -> Contents]}

\* The listings of the tree: 0 is the root, i the directory at tree.items[i].
Listing(d) == IF d = 0 THEN tree.items ELSE tree.items[d].items
Listings == {0} \cup {i \in 1..Len(tree.items) : tree.items[i].isDirectory}
WithListing(d, l) ==
    IF d = 0 THEN [tree EXCEPT !.items = l]
    ELSE [tree EXCEPT !.items[d].items = l]
FilesIn(d) == {k \in 1..Len(Listing(d)) : ~Listing(d)[k].isDirectory}
NamesIn(d) == {Listing(d)[k].name : k \in 1..Len(Listing(d))}
FileCount ==
    Cardinality(FilesIn(0))
    + Cardinality({<<d, k>> \in (Listings \ {0}) \X (1..MaxFiles + 1) : k \in FilesIn(d)})

\* The (relative path, content) pairs of a directory, whatever its listing order.
Pairs(dir) ==
    LET top == Range(dir.items)
    IN  {<<e.name, e.content>> : e \in {x \in top : ~x.isDirectory}}
        \cup UNION {{<<d.name \o <<"/">> \o e.name, e.content>> : e \in Range(d.items)} :
                        d \in {x \in top : x.isDirectory}}

InitHash ==
    /\ \/ tree = MissingDir
       \/ \E k \in 0..MaxFiles : \E top \in FileListings(k) :
            \/ tree = Directory(top)
            \/ \E m \in 0..(MaxFiles - k), p \in 1..(k + 1), name \in DirNames :
                 \E inner \in FileListings(m) :
                    tree = Directory(InsertAt(top, p, DirEntry(name, inner)))
    /\ edit = None
    /\ digest = NoDigest
    /\ prevDigest = NoDigest

\* generateDirectoryHash(dirPath); the model follows two calls, one before and
\* one after the directory changed.
GenerateDirectoryHash ==
    /\ ~prevDigest.called
    /\ LET r == generateDirectoryHash(tree)
       IN  digest' = [called |-> TRUE, threw |-> r.threw, chunks |-> r.chunks, stream |-> r.stream,
                      pairs |-> Pairs(tree), edit |-> edit]
    /\ prevDigest' = digest
    /\ edit' = None
    /\ UNCHANGED <<tree, outsideHash>>

\* The file system lists a directory in another order.
Relist(d, p) ==
    /\ ~prevDigest.called
    /\ tree.exists
    /\ d \in Listings
    /\ p \in 1..(Len(Listing(d)) - 1)
    /\ tree' = WithListing(d, SwapAt(Listing(d), p))
    /\ UNCHANGED <<edit, digest, prevDigest, outsideHash>>

\* One file is renamed within its directory; its content stays.
RenameFile(d, k, name) ==
    /\ digest.called /\ ~prevDigest.called /\ edit = None
    /\ d \in Listings /\ k \in FilesIn(d)
    /\ name \notin NamesIn(d)
    /\ tree' = WithListing(d, [Listing(d) EXCEPT ![k].name = name])
    /\ edit' = "rename"
    /\ UNCHANGED <<digest, prevDigest, outsideHash>>

\* One byte of one file's content changes.
ChangeByte(d, k, byte) ==
    /\ digest.called /\ ~prevDigest.called /\ edit = None
    /\ d \in Listings /\ k \in FilesIn(d)
    /\ \E i \in 1..Len(Listing(d)[k].content) :
          /\ byte # Listing(d)[k].content[i]
          /\ tree' = WithListing(d, [Listing(d) EXCEPT ![k].content[i] = byte])
    /\ edit' = "change"
    /\ UNCHANGED <<digest, prevDigest, outsideHash>>

\* One file is deleted.
DeleteFile(d, k) ==
    /\ digest.called /\ ~prevDigest.called /\ edit = None
    /\ d \in Listings /\ k \in FilesIn(d)
    /\ tree' = WithListing(d, RemoveAt(Listing(d), k))
    /\ edit' = "delete"
    /\ UNCHANGED <<digest, prevDigest, outsideHash>>

\* One file is added.
AddFile(d, name, content) ==
    /\ digest.called /\ ~prevDigest.called /\ edit = None
    /\ tree.exists
    /\ d \in Listings
    /\ FileCount < MaxFiles
    /\ name \notin NamesIn(d)
    /\ tree' = WithListing(d, Append(Listing(d), FileEntry(name, content)))
    /\ edit' = "add"
    /\ UNCHANGED <<digest, prevDigest, outsideHash>>

NextHash ==
    \/ GenerateDirectoryHash
    \/ \E d \in 0..(MaxFiles + 1), p \in 1..MaxFiles : Relist(d, p)
    \/ \E d \in 0..(MaxFiles + 1), k \in 1..(MaxFiles + 1), name \in FileNames :
          RenameFile(d, k, name)
    \/ \E d \in 0..(MaxFiles + 1), k \in 1..(MaxFiles + 1), byte \in Bytes :
          ChangeByte(d, k, byte)
    \/ \E d \in 0..(MaxFiles + 1), k \in 1..(MaxFiles + 1) : DeleteFile(d, k)
    \/ \E d \in 0..(MaxFiles + 1), name \in FileNames, content \in Contents :
          AddFile(d, name, content)

-----------------------------------------------------------------------------
(***************************************************************************)
(* publishCommand (commands/publish.ts 38-182) with loadConfig             *)
(* (config.ts), isGitClean and commitIfDirty (git.ts) and runCmdOrExit     *)
(* (runCmd.ts).                                                            *)
(*                                                                         *)
(* The command runs in the directory of package PublishedPackage.  What a  *)
(* child process (git, pnpm) answers is an input of the action that        *)
(* models its close, and a command-line argument is an input of the action *)
(* in which publishCommand first reads it.  A version is the triple of its *)
(* numbers: "1.0.0" is <<1, 0, 0>>.  The content of dist/ is known by its  *)
(* hash.                                                                   *)
(***************************************************************************)
MaxRuns == 2        \* invocations of publishCommand in one behaviour

PublishedPackage == "pkg-a"

\* config.monorepo.packages when the config declares a monorepo.
MonorepoPackages == MakePackages(<<"pkg-b", "pkg-a">>, << <<>>, <<"pkg-b">> >>)

\* pkg-manager.config.ts: absent, or a config object.  prePublish holds the
\* command name of each script, "" for a command that is the empty string.
NoConfigFile ==
    [exists |-> FALSE, requireMajorConfirmation |-> "omitted", monorepo |-> FALSE,
     prePublish |-> <<>>]
ConfigFiles ==
    {NoConfigFile} \cup
    [exists : {TRUE}, requireMajorConfirmation : {"true", "false", "omitted"},
     monorepo : BOOLEAN, prePublish : {<<>>, <<"build">>, <<"lint", "">>}]

\* defaultConfig (config.ts)
defaultConfig == [requireMajorConfirmation |-> TRUE, monorepo |-> FALSE, prePublish |-> <<>>]

\* loadConfig without `?? true`.
loadConfig_NoDefault(configFile) ==
    IF ~configFile.exists THEN defaultConfig
    ELSE [requireMajorConfirmation |-> configFile.requireMajorConfirmation = "true",
          monorepo |-> configFile.monorepo,
          prePublish |-> configFile.prePublish]

\* loadConfig (config.ts): `config.requireMajorConfirmation ?? true`.
loadConfig(configFile) ==
    IF ~configFile.exists THEN defaultConfig
    ELSE [requireMajorConfirmation |->
              IF configFile.requireMajorConfirmation = "omitted" THEN TRUE
              ELSE configFile.requireMajorConfirmation = "true",
          monorepo |-> configFile.monorepo,
          prePublish |-> configFile.prePublish]

\* isGitClean (git.ts 3-11) on what `git status --porcelain` answered.
GitStatusAnswers == {"clean", "dirty", "failed"}
isGitClean(answer) == IF answer = "failed" THEN FALSE ELSE answer = "clean"

VERSION_TYPES == {"major", "minor", "patch"}
\* --type: a valid type, another word, or not given.
TypeArgs == VERSION_TYPES \cup {"invalid", None}

\* resolveVersionType (lines 205-229); `selected` is the answer to the prompt.
resolveVersionType(typeArg, selected) ==
    IF typeArg # None
    THEN IF typeArg \in VERSION_TYPES THEN [exit |-> FALSE, versionType |-> typeArg]
         ELSE [exit |-> TRUE, versionType |-> None]
    ELSE [exit |-> FALSE, versionType |-> selected]

\* Line 64.
NeedsConfirmation(versionType, config, args) ==
    versionType = "major" /\ config.requireMajorConfirmation /\ ~args.skipConfirm

\* getPrePublishScripts (lines 279-305).
getPrePublishScripts(config, hasPrePublishScript) ==
    IF Len(config.prePublish) > 0 THEN [exit |-> FALSE, scripts |-> config.prePublish]
    ELSE IF hasPrePublishScript THEN [exit |-> FALSE, scripts |-> <<"pnpm">>]
    ELSE [exit |-> TRUE, scripts |-> <<>>]

\* `if (!args.dryRun)` (lines 78, 90, 148, 161, 169) taken in every run.
NotDryRun_Always(args) == TRUE

NotDryRun(args) == ~args.dryRun

\* `hashCheck.isDuplicate && !args.force` without the force flag.
Rejects_EvenForced(hashCheck, args) == hashCheck.isDuplicate

\* The same condition that never holds.
Rejects_Never(hashCheck, args) == FALSE

\* Line 123.
Rejects(hashCheck, args) == hashCheck.isDuplicate /\ ~args.force

\* runCmdOrExit that goes on after a failed command.
runCmdOrExit_GoOn(ok, next) == next

\* runCmdOrExit (runCmd.ts): process.exit(1) unless the command succeeded;
\* the value is where publishCommand stands afterwards.
runCmdOrExit(ok, next) == IF ok THEN next ELSE "exited"

\* `pnpm version <versionType>` on the version of package.json.
NextVersion(version, versionType) ==
    IF versionType = "major" THEN <<version[1] + 1, 0, 0>>
    ELSE IF versionType = "minor" THEN <<version[1], version[2] + 1, 0>>
    ELSE <<version[1], version[2], version[3] + 1>>

InitialVersion == <<1, 0, 0>>

\* The flags of PublishArgs not read yet.
NoArgs == [force |-> FALSE, dryRun |-> FALSE, skipConfirm |-> FALSE]

NoHashCheck == [threw |-> FALSE, isDuplicate |-> FALSE, existingVersion |-> None]

NoStart == [file |-> MissingFile, repo |-> [version |-> InitialVersion, dist |-> None,
                                            tags |-> {}, registry |-> {}],
            succeeded |-> {}]

\* No invocation yet.
IdlePub ==
    [at |-> "idle", runs |-> 0, args |-> NoArgs, versionType |-> None,
     prompted |-> FALSE, confirmed |-> FALSE, todo |-> <<>>, currentHash |-> None,
     checked |-> FALSE, hashCheck |-> NoHashCheck, warned |-> FALSE,
     newVersion |-> <<0, 0, 0>>, exitCode |-> None, steps |-> <<>>, start |-> NoStart]

\* process.exit(code)
Exit(p, code) == [p EXCEPT !.at = "exited", !.exitCode = code]

\* The run goes to `next`, or has exited with code 1 when next is "exited".
Goto(p, next) ==
    IF next = "exited" THEN Exit(p, 1) ELSE [p EXCEPT !.at = next]

Step(kind, ok) == [kind |-> kind, ok |-> ok]

-----------------------------------------------------------------------------
(***************************************************************************)
(* publishCommand as a state machine: up to MaxRuns invocations, one after *)
(* the other, in one project.  pub.steps lists what the invocation has     *)
(* executed so far and whether it succeeded.                               *)
(***************************************************************************)
InitPublish ==
    /\ \E cf \in ConfigFiles, script \in BOOLEAN :
          /\ script => cf.prePublish = <<>>
          /\ project = [configFile |-> cf, hasPrePublishScript |-> script]
    /\ repo = [version |-> InitialVersion, dist |-> None, tags |-> {}, registry |-> {}]
    /\ \/ file = MissingFile
       \/ file = OneEntryFile(PublishedPackage, InitialVersion, HashList[1])
    /\ pub = IdlePub
    /\ succeeded = {}

Finished == pub.at \in {"idle", "done", "exited"}

\* `pkg-manager publish` is started (lines 38-42, 58): loadConfig, then the
\* `git status` of isGitClean is spawned.  d is the build output the
\* invocation finds, dist/ being absent or rebuilt since the last one.
PublishStart(dryRun, d) ==
    /\ Finished
    /\ pub.runs < MaxRuns
    /\ repo' = [repo EXCEPT !.dist = d]
    /\ pub' = [IdlePub EXCEPT !.at = "isGitClean", !.runs = pub.runs + 1,
                              !.args.dryRun = dryRun,
                              !.start = [file |-> file, repo |-> repo',
                                         succeeded |-> succeeded]]
    /\ UNCHANGED <<project, succeeded, file, outsidePublish>>

\* Lines 42-50.
IsGitClean(answer) ==
    /\ pub.at = "isGitClean"
    /\ LET isClean == isGitClean(answer)
           p == [pub EXCEPT !.steps = Append(@, Step("gitClean", isClean))]
       IN  pub' = IF ~isClean THEN Exit(p, 1) ELSE [p EXCEPT !.at = "resolvePackage"]
    /\ UNCHANGED <<project, repo, succeeded, file, outsidePublish>>

\* Lines 52-54: getPackageName exits when package.json is missing or has no
\* name.
ResolvePackage(named) ==
    /\ pub.at = "resolvePackage"
    /\ pub' = IF named THEN [pub EXCEPT !.at = "resolveVersionType"] ELSE Exit(pub, 1)
    /\ UNCHANGED <<project, repo, succeeded, file, outsidePublish>>

\* Lines 62-64.
ResolveVersionType(typeArg, selected, skipConfirm) ==
    /\ pub.at = "resolveVersionType"
    /\ typeArg = None \/ selected = "patch"
    /\ LET r == resolveVersionType(typeArg, selected)
           p == [pub EXCEPT !.versionType = r.versionType,
                            !.args.skipConfirm = skipConfirm]
       IN  pub' = IF r.exit THEN Exit(pub, 1)
                  ELSE IF NeedsConfirmation(r.versionType, loadConfig(project.configFile),
                                            p.args)
                  THEN [p EXCEPT !.at = "confirm"]
                  ELSE [p EXCEPT !.at = "buildDependencies"]
    /\ UNCHANGED <<project, repo, succeeded, file, outsidePublish>>

\* Lines 65-73: the answer to the confirmation prompt.
Confirm(answer) ==
    /\ pub.at = "confirm"
    /\ LET p == [pub EXCEPT !.prompted = TRUE, !.confirmed = answer]
       IN  pub' = IF ~answer THEN Exit(p, 0) ELSE [p EXCEPT !.at = "buildDependencies"]
    /\ UNCHANGED <<project, repo, succeeded, file, outsidePublish>>

\* Lines 76-81 up to the first build: buildDependencies computes
\* getDependencyOrder (monorepo.ts 175).
BuildDependenciesStart ==
    /\ pub.at = "buildDependencies"
    /\ LET config == loadConfig(project.configFile)
           order == IF config.monorepo /\ NotDryRun(pub.args)
                    THEN getDependencyOrder(PublishedPackage, MonorepoPackages)
                    ELSE <<>>
           names == [k \in 1..Len(order) |-> order[k].name]
       IN  pub' = [pub EXCEPT !.todo = names,
                              !.at = IF names = <<>> THEN "getPrePublishScripts"
                                     ELSE "building"]
    /\ UNCHANGED <<project, repo, succeeded, file, outsidePublish>>

\* The build of one dependency closes (monorepo.ts 158-168, 177-180).
BuildDependency(ok) ==
    /\ pub.at = "building"
    /\ LET p == [pub EXCEPT !.steps = Append(@, Step("build", ok)), !.todo = Tail(@)]
       IN  pub' = Goto(p, runCmdOrExit(ok, IF p.todo = <<>> THEN "getPrePublishScripts"
                                           ELSE "building"))
    /\ UNCHANGED <<project, repo, succeeded, file, outsidePublish>>

\* Lines 83-106 up to the first script: in a dry run the loop only logs.
GetPrePublishScripts ==
    /\ pub.at = "getPrePublishScripts"
    /\ LET r == getPrePublishScripts(loadConfig(project.configFile),
                                     project.hasPrePublishScript)
       IN  pub' = IF r.exit THEN Exit(pub, 1)
                  ELSE IF NotDryRun(pub.args)
                  THEN [pub EXCEPT !.todo = r.scripts, !.at = "scripts"]
                  ELSE [pub EXCEPT !.at = "hash"]
    /\ UNCHANGED <<project, repo, succeeded, file, outsidePublish>>

\* Lines 91-104: a script with an empty command exits; otherwise the script
\* runs, and may rebuild dist, and closes.
RunScript(ok, d) ==
    /\ pub.at = "scripts"
    /\ IF Falsy(Head(pub.todo))
       THEN /\ pub' = Exit(pub, 1)
            /\ repo' = repo
       ELSE /\ LET p == [pub EXCEPT !.steps = Append(@, Step("script", ok)),
                                    !.todo = Tail(@)]
               IN  pub' = Goto(p, runCmdOrExit(ok, IF p.todo = <<>> THEN "hash"
                                                   ELSE "scripts"))
            /\ repo' = [repo EXCEPT !.dist = d]
    /\ UNCHANGED <<project, succeeded, file, outsidePublish>>

\* Lines 108-144, and in a dry run lines 146-181 too: the dist check, the
\* hash, the duplicate check.
HashAndCheck(force) ==
    /\ pub.at = "hash"
    /\ IF repo.dist = None THEN pub' = Exit(pub, 1)
       ELSE LET currentHash == repo.dist
                hashCheck == checkHashForDuplicate(file, PublishedPackage, currentHash)
                args == [pub.args EXCEPT !.force = force]
                rejects == Rejects(hashCheck, args)
                p == [pub EXCEPT !.args = args,
                                 !.currentHash = currentHash,
                                 !.checked = TRUE,
                                 !.hashCheck = hashCheck,
                                 !.warned = hashCheck.isDuplicate /\ force,
                                 !.steps = @ \o <<Step("hash", TRUE),
                                                 Step("duplicateCheck", ~rejects)>>]
            IN  pub' = IF rejects THEN Exit(p, 1)
                       ELSE IF NotDryRun(pub.args) THEN [p EXCEPT !.at = "bump"]
                       ELSE [p EXCEPT !.at = "done", !.exitCode = 0,
                                      !.newVersion = repo.version]
    /\ UNCHANGED <<project, repo, succeeded, file, outsidePublish>>

\* Lines 149-151: `pnpm version` closes.
Bump(ok) ==
    /\ pub.at = "bump"
    /\ pub' = Goto([pub EXCEPT !.steps = Append(@, Step("bump", ok))],
                   runCmdOrExit(ok, "commitBump"))
    /\ repo' = IF ok THEN [repo EXCEPT !.version = NextVersion(@, pub.versionType)]
               ELSE repo
    /\ UNCHANGED <<project, succeeded, file, outsidePublish>>

\* commitIfDirty (git.ts 21-32) at line 153 or 176: nothing to commit, or
\* `git add` and `git commit` run.  After line 153 come lines 156-163, after
\* line 176 the function returns.
CommitIfDirty(answer, addOk, commitOk) ==
    /\ pub.at \in {"commitBump", "commitHashes"}
    /\ LET after == IF pub.at = "commitBump" THEN "tag" ELSE "done"
           added == [pub EXCEPT !.steps = Append(@, Step("gitAdd", addOk))]
           committed == [added EXCEPT !.steps = Append(@, Step("gitCommit", commitOk))]
           p == IF isGitClean(answer) THEN [pub EXCEPT !.at = after]
                ELSE IF runCmdOrExit(addOk, after) = "exited" THEN Exit(added, 1)
                ELSE Goto(committed, runCmdOrExit(commitOk, after))
       IN  /\ pub' = IF p.at = "tag" THEN [p EXCEPT !.newVersion = repo.version]
                     ELSE IF p.at = "done" THEN [p EXCEPT !.exitCode = 0]
                     ELSE p
           /\ succeeded' = IF p.at = "done" THEN succeeded \cup {pub.currentHash}
                           ELSE succeeded
    /\ isGitClean(answer) => (addOk /\ commitOk)
    /\ ~addOk => commitOk
    /\ UNCHANGED <<project, repo, file, outsidePublish>>

\* Line 163: `git tag` closes.
Tag(ok) ==
    /\ pub.at = "tag"
    /\ pub' = Goto([pub EXCEPT !.steps = Append(@, Step("tag", ok))],
                   runCmdOrExit(ok, "publish"))
    /\ repo' = IF ok THEN [repo EXCEPT !.tags = @ \cup {pub.newVersion}] ELSE repo
    /\ UNCHANGED <<project, succeeded, file, outsidePublish>>

\* Lines 170-174 with savePackageHash ahead of the exit of runCmdOrExit.
Publish_SaveAnyway(ok) ==
    /\ pub.at = "publish"
    /\ LET next == runCmdOrExit(ok, "commitHashes")
           published == [pub EXCEPT !.steps = Append(@, Step("publish", ok))]
       IN  pub' = IF next = "exited" THEN Exit(published, 1)
                  ELSE [published EXCEPT !.steps = Append(@, Step("save", TRUE)),
                                         !.at = next]
    /\ file' = savePackageHash(file, PublishedPackage, pub.newVersion,
                               pub.currentHash).file
    /\ repo' = IF ok THEN [repo EXCEPT !.registry = @ \cup {pub.newVersion}] ELSE repo
    /\ UNCHANGED <<project, succeeded, outsidePublish>>

\* Lines 170-174: `pnpm publish` closes and savePackageHash runs.
Publish(ok) ==
    /\ pub.at = "publish"
    /\ LET next == runCmdOrExit(ok, "commitHashes")
           published == [pub EXCEPT !.steps = Append(@, Step("publish", ok))]
       IN  IF next = "exited"
           THEN /\ pub' = Exit(published, 1)
                /\ file' = file
           ELSE /\ pub' = [published EXCEPT !.steps = Append(@, Step("save", TRUE)),
                                            !.at = next]
                /\ file' = savePackageHash(file, PublishedPackage, pub.newVersion,
                                           pub.currentHash).file
    /\ repo' = IF ok THEN [repo EXCEPT !.registry = @ \cup {pub.newVersion}] ELSE repo
    /\ UNCHANGED <<project, succeeded, outsidePublish>>

NextPublish ==
    \/ \E dryRun \in BOOLEAN, d \in Hashes \cup {None} : PublishStart(dryRun, d)
    \/ \E answer \in GitStatusAnswers : IsGitClean(answer)
    \/ \E named \in BOOLEAN : ResolvePackage(named)
    \/ \E typeArg \in TypeArgs, selected \in VERSION_TYPES, skipConfirm \in BOOLEAN :
          ResolveVersionType(typeArg, selected, skipConfirm)
    \/ \E answer \in BOOLEAN : Confirm(answer)
    \/ BuildDependenciesStart
    \/ \E ok \in BOOLEAN : BuildDependency(ok)
    \/ GetPrePublishScripts
    \/ \E ok \in BOOLEAN, d \in Hashes \cup {None} : RunScript(ok, d)
    \/ \E force \in BOOLEAN : HashAndCheck(force)
    \/ \E ok \in BOOLEAN : Bump(ok)
    \/ \E answer \in GitStatusAnswers, addOk, commitOk \in BOOLEAN :
          CommitIfDirty(answer, addOk, commitOk)
    \/ \E ok \in BOOLEAN : Tag(ok)
    \/ \E ok \in BOOLEAN : Publish(ok)

-----------------------------------------------------------------------------
(***************************************************************************)
(* Specifications.                                                         *)
(***************************************************************************)
IdleGraph ==
    /\ packages = <<>>
    /\ pc = "idle"
    /\ targetPackage = None
    /\ sortResult = NoSortResult
    /\ deps = <<>>
    /\ calls = 0
    /\ running = None
    /\ built = <<>>

IdleHash ==
    /\ tree = MissingDir
    /\ edit = None
    /\ digest = NoDigest
    /\ prevDigest = NoDigest

IdleRace ==
    /\ procs = [i \in Invocations |-> IdleProc]
    /\ events = <<>>

IdlePublish ==
    /\ project = [configFile |-> NoConfigFile, hasPrePublishScript |-> FALSE]
    /\ repo = NoStart.repo
    /\ pub = IdlePub
    /\ succeeded = {}

\* The hash store.
Init == InitStore /\ IdleGraph /\ IdleHash /\ IdleRace /\ IdlePublish
Spec == Init /\ [][Next]_vars

IdleStore ==
    /\ file = None
    /\ lastOp = None
    /\ lastSaved = None

\* The dependency resolver.
InitG == InitGraph /\ IdleStore /\ IdleHash /\ IdleRace /\ IdlePublish
SpecGraph == InitG /\ [][NextG]_vars

\* The directory hash.
InitH == InitHash /\ IdleGraph /\ IdleStore /\ IdleRace /\ IdlePublish
SpecHash == InitH /\ [][NextHash]_vars

\* Two concurrent savePackageHash calls.
InitR ==
    InitRace /\ IdleGraph /\ IdleHash /\ IdlePublish /\ lastOp = None /\ lastSaved = None
SpecRace == InitR /\ [][NextRace]_vars

\* publishCommand.
InitP ==
    InitPublish /\ IdleGraph /\ IdleHash /\ IdleRace /\ lastOp = None /\ lastSaved = None
SpecPublish == InitP /\ [][NextPublish]_vars

-----------------------------------------------------------------------------
(***************************************************************************)
(* The dependency graph a package list declares, stated without reference  *)
(* to the algorithms above.                                                *)
(***************************************************************************)
NamesOf(pkgs) == {pkgs[i].name : i \in 1..Len(pkgs)}

DistinctNames(pkgs) ==
    \A i, j \in 1..Len(pkgs) : i # j => pkgs[i].name # pkgs[j].name

\* The in-graph dependencies of the records named n.
InGraphDeps(pkgs, n) ==
    {d \in NamesOf(pkgs) :
        \E i \in 1..Len(pkgs) : pkgs[i].name = n /\ d \in Range(pkgs[i].dependsOn)}

RECURSIVE Closure(_, _)
Closure(pkgs, S) ==
    LET T == S \cup UNION {InGraphDeps(pkgs, m) : m \in S}
    IN  IF T = S THEN S ELSE Closure(pkgs, T)

\* The names reachable from n by one or more in-graph dependsOn edges.
TransitiveDeps(pkgs, n) == Closure(pkgs, InGraphDeps(pkgs, n))

HasCycle(pkgs) == \E n \in NamesOf(pkgs) : n \in TransitiveDeps(pkgs, n)

\* No cycle among the target and what is reachable from it.
ReachableAcyclic(pkgs, t) ==
    \A n \in {t} \cup TransitiveDeps(pkgs, t) : n \notin TransitiveDeps(pkgs, n)

SeqNames(ps) == {ps[k].name : k \in 1..Len(ps)}

NoRepeats(ps) == \A k, m \in 1..Len(ps) : k # m => ps[k].name # ps[m].name

\* Every element stands after all in-graph dependencies (of its own record).
DependencyFirst(ps, pkgs) ==
    \A k \in 1..Len(ps) :
        \A d \in Range(ps[k].dependsOn) \cap NamesOf(pkgs) :
            \E m \in 1..(k - 1) : ps[m].name = d

\* The number of dependsOn entries of a list.
RECURSIVE DependsOnCount(_, _)
DependsOnCount(pkgs, i) ==
    IF i > Len(pkgs) THEN 0 ELSE Len(pkgs[i].dependsOn) + DependsOnCount(pkgs, i + 1)

AfterCall == pc \in {"ordered", "building", "built", "exited"}

-----------------------------------------------------------------------------
(***************************************************************************)
(* Claims about the dependency resolver, checked under SpecGraph.          *)
(***************************************************************************)

\* C1: on a list with distinct names and acyclic in-graph edges, topologicalSort
\* does not throw, returns every input package exactly once, and places each
\* package after every package it depends on directly or transitively;
\* dependsOn entries naming absent packages do not matter.
C1_SortOrdersAcyclicGraph ==
    (pc = "sorted" /\ DistinctNames(packages) /\ ~HasCycle(packages)) =>
        /\ ~sortResult.threw
        /\ Len(sortResult.sorted) = Len(packages)
        /\ \A i \in 1..Len(packages) :
              Cardinality({k \in 1..Len(sortResult.sorted) :
                              sortResult.sorted[k] = packages[i]}) = 1
        /\ \A k \in 1..Len(sortResult.sorted) :
              \A d \in TransitiveDeps(packages, sortResult.sorted[k].name) :
                  \E m \in 1..(k - 1) : sortResult.sorted[m].name = d

\* C2: on a list whose in-graph edges contain a cycle (a self-dependency, or
\* a cycle among only some of the packages, included) topologicalSort throws the
\* circular-dependency error and returns no ordering.
C2_CycleThrows ==
    (pc = "sorted" /\ HasCycle(packages)) =>
        (sortResult.threw /\ sortResult.sorted = <<>>)

\* A sort that threw on a list with distinct names where one package is on a
\* cycle and another is not.
C2_Witness ==
    /\ pc = "sorted"
    /\ DistinctNames(packages)
    /\ sortResult.threw
    /\ \E n, m \in NamesOf(packages) :
          /\ n \in TransitiveDeps(packages, n)
          /\ m \notin TransitiveDeps(packages, m)
          /\ ~Falsy(n) /\ ~Falsy(m)

\* C8 as stated: on a list with distinct names the names getDependencyOrder
\* returns are exactly those reachable from the target by one or more dependsOn
\* edges, each once, never the target, never an absent name; an absent target or
\* one without in-graph dependencies gives the empty list.
C8_ResultIsReachableSet ==
    (pc = "ordered" /\ DistinctNames(packages)) =>
        /\ SeqNames(deps) = TransitiveDeps(packages, targetPackage)
        /\ NoRepeats(deps)
        /\ targetPackage \notin SeqNames(deps)
        /\ Range(deps) \subseteq Range(packages)
        /\ (targetPackage \notin NamesOf(packages)
              \/ InGraphDeps(packages, targetPackage) = {}) => deps = <<>>

\* C8 amended: the names returned are exactly those reachable from the target
\* by one or more dependsOn edges other than the target itself, each once and
\* each a record of the list; an absent target or one without in-graph
\* dependencies gives the empty list.
C8_ResultIsReachableSetButTarget ==
    (pc = "ordered" /\ DistinctNames(packages)) =>
        /\ SeqNames(deps) = TransitiveDeps(packages, targetPackage) \ {targetPackage}
        /\ NoRepeats(deps)
        /\ targetPackage \notin SeqNames(deps)
        /\ Range(deps) \subseteq Range(packages)
        /\ (targetPackage \notin NamesOf(packages)
              \/ InGraphDeps(packages, targetPackage) = {}) => deps = <<>>

\* A call that returned two packages, one of them only an indirect dependency
\* of the target, from a list that also names an absent dependency.
C8_Witness ==
    /\ pc = "ordered"
    /\ DistinctNames(packages)
    /\ Len(deps) = 2
    /\ \E k \in 1..2 : deps[k].name \notin InGraphDeps(packages, targetPackage)
    /\ \E i \in 1..Len(packages) : ExternalName \in Range(packages[i].dependsOn)

\* C9: when nothing reachable from the target lies on a cycle, every package
\* getDependencyOrder returns stands after all of its in-graph dependencies;
\* buildDependencies builds the returned packages one at a time in that order,
\* so a build starts only after the builds of all in-graph dependencies of that
\* package succeeded, and the target is never built.
C9_BuildsDependencyFirst ==
    AfterCall =>
        /\ ReachableAcyclic(packages, targetPackage) => DependencyFirst(deps, packages)
        /\ Len(built) <= Len(deps)
        /\ \A k \in 1..Len(built) : built[k] = deps[k].name
        /\ running # None =>
              /\ Len(built) < Len(deps)
              /\ running = deps[Len(built) + 1].name
              /\ ReachableAcyclic(packages, targetPackage) =>
                    (Range(deps[Len(built) + 1].dependsOn) \cap NamesOf(packages))
                        \subseteq Range(built)
        /\ pc = "built" => Len(built) = Len(deps)
        /\ targetPackage \notin Range(built) \cup {running}

\* buildDependencies returned after building two packages, the second of
\* which depends on the first.
C9_Witness ==
    /\ pc = "built"
    /\ Len(built) = 2
    /\ ReachableAcyclic(packages, targetPackage)
    /\ built[1] \in Range(deps[2].dependsOn)

\* C10: getDependencyOrder returns on every list and target, cycles included,
\* after at most one visit per dependsOn entry plus one; it returns no package
\* twice and never the target; and when a cycle is reachable from the target,
\* topologicalSort throws on the same list.
C10_WalkTerminatesOnCycles ==
    AfterCall =>
        /\ calls <= 1 + DependsOnCount(packages, 1)
        /\ NoRepeats(deps)
        /\ targetPackage \notin SeqNames(deps)
        /\ ~ReachableAcyclic(packages, targetPackage) => topologicalSort(packages).threw

\* A call whose target lies on a cycle with another package, which it returned.
C10_Witness ==
    /\ pc = "ordered"
    /\ targetPackage \in TransitiveDeps(packages, targetPackage)
    /\ Len(deps) >= 1
    /\ \E k \in 1..Len(deps) : targetPackage \in Range(deps[k].dependsOn)

-----------------------------------------------------------------------------
(***************************************************************************)
(* What a file at hashStorePath records, stated without reference to the   *)
(* functions above.                                                        *)
(***************************************************************************)
IsStoreFile(f) == f.exists /\ f.shape = "store"

\* Absent, or holding a HashStore: not damaged.
Readable(f) == ~f.exists \/ f.shape = "store"

\* Package p's record in the file, NoRecord when the file has none.
RecordIn(f, p) == IF IsStoreFile(f) THEN f.store.packages[p] ELSE NoRecord

\* The (version, hash) entries the file holds for p.
EntriesIn(f, p) == Range(RecordIn(f, p).versions)

VersionKeys(f, p) == {e.version : e \in EntriesIn(f, p)}

\* A checkHashForDuplicate call that directly follows a savePackageHash call
\* for the same package and hash.
RoundTrip ==
    /\ lastOp.kind = "check"
    /\ lastOp.prev.kind = "save"
    /\ lastOp.prev.pkg = lastOp.pkg
    /\ lastOp.prev.hash = lastOp.hash

-----------------------------------------------------------------------------
(***************************************************************************)
(* Claims about the hash store, checked under Spec.                        *)
(***************************************************************************)

\* C3 as stated: savePackageHash(p, v, h) directly followed by
\* checkHashForDuplicate(p, h) reports isDuplicate = true with
\* existingVersion = v, also when another version of p has the hash h.
C3_RoundTripReportsSavedVersion ==
    RoundTrip =>
        (lastOp.isDuplicate /\ lastOp.existingVersion = lastOp.prev.version)

\* C3 amended: the round trip reports isDuplicate = true with existingVersion a
\* version of p recorded with the hash h, which is v whenever no other version
\* of p is recorded with h.
C3_RoundTripReportsVersionWithHash ==
    RoundTrip =>
        /\ ~lastOp.threw
        /\ lastOp.isDuplicate
        /\ [version |-> lastOp.existingVersion, hash |-> lastOp.hash]
              \in EntriesIn(file, lastOp.pkg)
        /\ (\A e \in EntriesIn(file, lastOp.pkg) :
                e.hash = lastOp.hash => e.version = lastOp.prev.version)
              => lastOp.existingVersion = lastOp.prev.version

\* A round trip on a package with two versions of different hashes that
\* reported the version just saved.
C3_Witness ==
    /\ RoundTrip
    /\ Cardinality(EntriesIn(file, lastOp.pkg)) = 2
    /\ \E e \in EntriesIn(file, lastOp.pkg) : e.hash # lastOp.hash
    /\ lastOp.existingVersion = lastOp.prev.version

\* C4: whatever calls came before, every package with a record in the file has
\* lastVersion equal to the version of the latest savePackageHash call for it,
\* and lastVersion is a key of its versions.
C4_LastVersionIsLatest ==
    \A p \in StorePackages :
        RecordIn(file, p).present =>
            /\ RecordIn(file, p).lastVersion = lastSaved[p]
            /\ RecordIn(file, p).lastVersion \in VersionKeys(file, p)

\* A save of a version that already had an entry, older than another one.
C4_Witness ==
    /\ lastOp.kind = "save"
    /\ Len(RecordIn(file, lastOp.pkg).versions) = 2
    /\ RecordIn(file, lastOp.pkg).versions[1].version = lastOp.version
    /\ RecordIn(file, lastOp.pkg).lastVersion = lastOp.version

\* C5: savePackageHash(p, v, h) on a file that is absent or holds a store
\* leaves a store that differs from the previous one exactly in that p has a
\* record, versions[v] is h and lastVersion is v: the other packages and the
\* other versions of p are as before, and each version has one hash.
C5_SaveChangesOneEntry ==
    (lastOp.kind = "save" /\ Readable(lastOp.before)) =>
        /\ IsStoreFile(file)
        /\ \A q \in StorePackages \ {lastOp.pkg} :
              RecordIn(file, q) = RecordIn(lastOp.before, q)
        /\ RecordIn(file, lastOp.pkg).present
        /\ RecordIn(file, lastOp.pkg).lastVersion = lastOp.version
        /\ EntriesIn(file, lastOp.pkg) =
              {e \in EntriesIn(lastOp.before, lastOp.pkg) : e.version # lastOp.version}
                  \cup {[version |-> lastOp.version, hash |-> lastOp.hash]}
        /\ Cardinality(VersionKeys(file, lastOp.pkg))
              = Len(RecordIn(file, lastOp.pkg).versions)

\* A save that replaced the hash of a version while the package had another
\* version and the other package had a record.
C5_Witness ==
    /\ lastOp.kind = "save"
    /\ \E e \in EntriesIn(lastOp.before, lastOp.pkg) :
          e.version = lastOp.version /\ e.hash # lastOp.hash
    /\ \E e \in EntriesIn(lastOp.before, lastOp.pkg) : e.version # lastOp.version
    /\ \E q \in StorePackages \ {lastOp.pkg} : RecordIn(file, q).present

\* C6: checkHashForDuplicate(p, h) reports isDuplicate = true exactly when the
\* store read from the file has a record for p with a version whose hash is h,
\* and then existingVersion is such a version; it leaves the file as it was.
C6_DuplicateIffRecorded ==
    lastOp.kind = "check" =>
        /\ ~lastOp.threw
        /\ lastOp.isDuplicate <=>
              (/\ RecordIn(lastOp.before, lastOp.pkg).present
               /\ \E e \in EntriesIn(lastOp.before, lastOp.pkg) : e.hash = lastOp.hash)
        /\ lastOp.isDuplicate =>
              [version |-> lastOp.existingVersion, hash |-> lastOp.hash]
                  \in EntriesIn(lastOp.before, lastOp.pkg)
        /\ ~lastOp.isDuplicate => lastOp.existingVersion = None
        /\ file = lastOp.before

\* A check that answered false for a hash recorded only for the other package,
\* the checked package having a record too.
C6_Witness ==
    /\ lastOp.kind = "check"
    /\ ~lastOp.isDuplicate
    /\ RecordIn(file, lastOp.pkg).present
    /\ \E q \in StorePackages \ {lastOp.pkg} :
          \E e \in EntriesIn(file, q) : e.hash = lastOp.hash

\* C7: when the file is absent, is not JSON, or is JSON that does not match
\* the schema, readHashStore returns the empty store without throwing, and
\* checkHashForDuplicate answers isDuplicate = false for every package and hash.
C7_UnreadableFileIsEmptyStore ==
    /\ ~IsStoreFile(file) =>
          /\ readHashStore(file) = [threw |-> FALSE, store |-> EmptyStore]
          /\ \A p \in StorePackages, h \in Hashes :
                checkHashForDuplicate(file, p, h) =
                    [threw |-> FALSE, isDuplicate |-> FALSE, existingVersion |-> None]
    /\ (lastOp.kind = "check" /\ ~IsStoreFile(lastOp.before)) =>
          (~lastOp.threw /\ ~lastOp.isDuplicate)

\* A check on a file that stopped matching the schema after a hash had been
\* saved for the checked package.
C7_Witness ==
    /\ lastOp.kind = "check"
    /\ lastOp.before.shape = "wrong-schema"
    /\ lastSaved[lastOp.pkg] # None
    /\ ~lastOp.isDuplicate


-----------------------------------------------------------------------------
(***************************************************************************)
(* Claims about generateDirectoryHash, checked under SpecHash.             *)
(***************************************************************************)
\* Two calls were made and neither threw.
HashedTwice == prevDigest.called /\ digest.called /\ ~prevDigest.threw /\ ~digest.threw

\* C11: two directories with the same (relative path, content) pairs feed the
\* digest the same sequence of path and content chunks, whatever the order in
\* which each directory is listed, and so have the same hash.
C11_HashIgnoresListingOrder ==
    (HashedTwice /\ digest.pairs = prevDigest.pairs)
        => (digest.chunks = prevDigest.chunks /\ digest.stream = prevDigest.stream)

\* A directory holding a file and a sub-directory with a file was hashed under
\* two listings, the later one not in sorted order.
C11_Witness ==
    /\ HashedTwice
    /\ digest.pairs = prevDigest.pairs
    /\ Len(digest.chunks) = 2 * MaxFiles
    /\ \E i \in 1..Len(tree.items) : tree.items[i].isDirectory /\ Len(tree.items[i].items) = 1
    /\ \E i \in 1..(Len(tree.items) - 1) : NameLess(tree.items[i + 1].name, tree.items[i].name)

\* C12: renaming one file, changing one byte of one file, deleting one file
\* or adding one file changes the byte stream fed to the digest.
C12_SingleEditChangesHash ==
    (HashedTwice /\ digest.edit \in {"rename", "change", "delete", "add"})
        => digest.stream # prevDigest.stream

\* The same for every edit but a rename.
C12_OtherEditsChangeHash ==
    (HashedTwice /\ digest.edit \in {"change", "delete", "add"})
        => digest.stream # prevDigest.stream

-----------------------------------------------------------------------------
(***************************************************************************)
(* Claims about the error and the tie-breaking of topologicalSort, checked *)
(* under SpecGraph.                                                        *)
(***************************************************************************)

\* C19: whenever topologicalSort throws the circular-dependency error, the
\* in-graph edges of the list contain a cycle; lists in which two records
\* share a name or a dependsOn array repeats a name are included.
C19_ThrowsOnlyOnCycle ==
    (pc = "sorted" /\ sortResult.threw) => HasCycle(packages)

\* The position of the first record named n in the input list.
InputPos(pkgs, n) == CHOOSE i \in 1..Len(pkgs) :
    pkgs[i].name = n /\ \A j \in 1..(i - 1) : pkgs[j].name # n

\* The position of the package named n in the sorted array.
SortedPos(sorted, n) == CHOOSE k \in 1..Len(sorted) : sorted[k].name = n

\* The step at which n becomes ready: 0 when it has no in-graph dependency,
\* otherwise the step that emits the last of its in-graph dependencies.
ReadyStep(pkgs, sorted, n) ==
    LET steps == {SortedPos(sorted, d) : d \in InGraphDeps(pkgs, n)}
    IN  IF steps = {} THEN 0 ELSE CHOOSE s \in steps : \A t \in steps : t <= s

\* C20: topologicalSort emits packages first-ready-first-served with input
\* order as the secondary key: the initially ready packages in input order, a
\* package that becomes ready at an earlier step before one that becomes ready
\* at a later step, and packages that become ready in the same step in input
\* order.
C20_FirstReadyFirstServed ==
    (pc = "sorted" /\ ~sortResult.threw) =>
        \A i, j \in 1..Len(sortResult.sorted) :
            i < j =>
                LET a == sortResult.sorted[i].name
                    b == sortResult.sorted[j].name
                    ra == ReadyStep(packages, sortResult.sorted, a)
                    rb == ReadyStep(packages, sortResult.sorted, b)
                IN  \/ ra < rb
                    \/ ra = rb /\ InputPos(packages, a) < InputPos(packages, b)

\* A sort of three packages in which two become ready in the same step, the
\* one listed first having the greater name, and are emitted in input order.
C20_Witness ==
    /\ pc = "sorted" /\ ~sortResult.threw
    /\ Len(sortResult.sorted) = 3
    /\ sortResult.sorted[2].name = "c" /\ sortResult.sorted[3].name = "b"
    /\ ReadyStep(packages, sortResult.sorted, "c") = 1
    /\ ReadyStep(packages, sortResult.sorted, "b") = 1

-----------------------------------------------------------------------------
(***************************************************************************)
(* Claims about concurrent savePackageHash calls, checked under SpecRace.  *)
(***************************************************************************)
BothDone == \A i \in Invocations : procs[i].at = "done"

\* The invocation that wrote first, and the one that wrote last.
EarlierWriter ==
    events[CHOOSE k \in 1..Len(events) :
              events[k].kind = "write"
              /\ \A j \in 1..(k - 1) : events[j].kind # "write"].by
LastWriter == events[Len(events)].by

\* Both calls read the file before either wrote it.
Interleaved == events[1].kind = "read" /\ events[2].kind = "read"

\* The (version, hash) entry a call records, and whether the file holds it.
EntryOf(i) == [version |-> procs[i].version, hash |-> procs[i].hash]
Holds(f, i) == EntryOf(i) \in EntriesIn(f, procs[i].pkg)

\* C17 as stated: when the two calls interleave, the last writer wins and the
\* entry recorded by the earlier writer is absent from the final store; when
\* they do not interleave, both entries are present.
C17_EarlierEntryLost ==
    BothDone =>
        IF Interleaved
        THEN /\ file = writeHashStore(procs[LastWriter].store)
             /\ ~Holds(file, EarlierWriter)
        ELSE \A i \in Invocations : Holds(file, i)

\* C17 amended: when the two calls interleave, the final store is the one the
\* last writer made from the file it read, so the earlier writer's entry is
\* absent from it unless the last writer recorded the same entry, or recorded
\* another (package, version) and the entry was already in the file both
\* read; when they do not interleave, the later entry is present, and the
\* earlier one too unless the later call recorded another hash for the same
\* package and version.
C17_LastWriterWins ==
    BothDone =>
        LET e == EarlierWriter
            l == LastWriter
            sameKey == procs[e].pkg = procs[l].pkg /\ procs[e].version = procs[l].version
        IN  IF Interleaved
            THEN /\ file = savePackageHash(procs[l].seen, procs[l].pkg,
                                           procs[l].version, procs[l].hash).file
                 /\ Holds(file, l)
                 /\ Holds(file, e) <=>
                       IF sameKey THEN procs[e].hash = procs[l].hash
                       ELSE Holds(procs[l].seen, e)
            ELSE /\ Holds(file, l)
                 /\ Holds(file, e) <=> ~(sameKey /\ procs[e].hash # procs[l].hash)

\* Two interleaved calls for different packages on a file that held neither
\* entry: the final file lacks the earlier writer's entry.
C17_Witness ==
    /\ BothDone /\ Interleaved
    /\ procs[1].pkg # procs[2].pkg
    /\ ~Holds(procs[LastWriter].seen, EarlierWriter)
    /\ ~Holds(file, EarlierWriter)
    /\ Holds(file, LastWriter)

-----------------------------------------------------------------------------
(***************************************************************************)
(* Claims about publishCommand, checked under SpecPublish.                 *)
(***************************************************************************)
Kinds(steps) == {steps[i].kind : i \in 1..Len(steps)}

\* The steps that change the repository, the registry or the store.
StateChanging ==
    {"build", "script", "bump", "gitAdd", "gitCommit", "tag", "publish", "save"}

\* Store, package.json version, dist, tags and registry are as the
\* invocation found them.
NothingChanged == file = pub.start.file /\ repo = pub.start.repo

\* The external steps of the publish workflow, in its order.
Workflow ==
    <<"gitClean", "build", "script", "hash", "duplicateCheck", "bump", "tag",
      "publish", "save">>
Rank(kind) == CHOOSE r \in 1..Len(Workflow) : Workflow[r] = kind
InWorkflow(step) == step.kind \in Range(Workflow)
\* Dependency builds happen only in a monorepo; builds and scripts can be many.
Optional == {"build"}
Repeatable == {"build", "script"}

AlreadyRecorded ==
    pub.checked
    /\ pub.currentHash \in {e.hash : e \in EntriesIn(pub.start.file, PublishedPackage)}

\* C14: when the hash of dist is already recorded in the store for the
\* package, publishCommand without --force exits with code 1 before any
\* version bump, git commit, git tag, registry publish or store write; with
\* --force it warns and goes on with the publish.
C14_DuplicateRejectedUnlessForced ==
    AlreadyRecorded =>
        IF ~pub.args.force
        THEN /\ pub.at = "exited" /\ pub.exitCode = 1
             /\ Kinds(pub.steps)
                   \cap {"bump", "gitAdd", "gitCommit", "tag", "publish", "save"} = {}
             /\ file = pub.start.file
             /\ repo.version = pub.start.repo.version
             /\ repo.tags = pub.start.repo.tags
             /\ repo.registry = pub.start.repo.registry
        ELSE /\ pub.warned
             /\ Step("duplicateCheck", TRUE) \in Range(pub.steps)
             /\ pub.steps[Len(pub.steps)].kind = "duplicateCheck" =>
                   pub.at = (IF pub.args.dryRun THEN "done" ELSE "bump")

\* A first publish, not a dry run, rejected for a hash the store held.
C14_Witness ==
    /\ AlreadyRecorded /\ ~pub.args.force /\ ~pub.args.dryRun
    /\ pub.runs = 1
    /\ pub.at = "exited"
    /\ "script" \in Kinds(pub.steps)

\* C15: with --dry-run publishCommand executes no dependency build, no
\* pre-publish script, no version bump, no git add or commit, no git tag, no
\* registry publish and no store write; the store and the package version
\* are as before the run.
C15_DryRunChangesNothing ==
    (pub.at # "idle" /\ pub.args.dryRun) =>
        /\ Kinds(pub.steps) \cap StateChanging = {}
        /\ NothingChanged

\* A dry run of a major bump in a monorepo with configured scripts that
\* returned.
C15_Witness ==
    /\ pub.args.dryRun /\ pub.at = "done" /\ pub.exitCode = 0
    /\ project.configFile.monorepo
    /\ project.configFile.prePublish # <<>>
    /\ pub.versionType = "major"
    /\ pub.checked

\* C16: after a publish with build hash h completed, a later publish attempt
\* without --force whose dist still hashes to h is rejected as a duplicate
\* before the version bump; the store file is changed by this tool only, one
\* invocation at a time.
C16_SameBuildRejectedLater ==
    (pub.checked /\ ~pub.args.force /\ pub.currentHash \in pub.start.succeeded) =>
        /\ pub.hashCheck.isDuplicate
        /\ pub.at = "exited" /\ pub.exitCode = 1
        /\ pub.steps[Len(pub.steps)] = Step("duplicateCheck", FALSE)
        /\ "bump" \notin Kinds(pub.steps)
        /\ repo.version = pub.start.repo.version

\* A second attempt with the build that the first invocation published.
C16_Witness ==
    /\ pub.runs = 2
    /\ pub.checked /\ ~pub.args.force /\ ~pub.args.dryRun
    /\ pub.currentHash \in pub.start.succeeded
    /\ pub.at = "exited"

\* The bump is major, requireMajorConfirmation is true or left out of the
\* config, and --skip-confirm is not given.
MajorGuarded ==
    /\ pub.versionType = "major"
    /\ project.configFile.requireMajorConfirmation # "false"
    /\ ~pub.args.skipConfirm

\* C18: for a major bump with requireMajorConfirmation true (the default when
\* the config omits it) and without --skip-confirm, no dependency build,
\* script, bump, tag, publish or store write happens unless the user
\* confirmed the prompt, and declining ends the run with exit code 0 and no
\* change; for a minor or patch bump no confirmation is requested.
C18_MajorNeedsConfirmation ==
    /\ MajorGuarded =>
          /\ (Kinds(pub.steps) \cap StateChanging # {} \/ ~NothingChanged)
                => (pub.prompted /\ pub.confirmed)
          /\ (pub.prompted /\ ~pub.confirmed) =>
                /\ pub.at = "exited" /\ pub.exitCode = 0
                /\ Kinds(pub.steps) \cap StateChanging = {}
                /\ NothingChanged
    /\ pub.versionType \in {"minor", "patch"} => ~pub.prompted

\* A major bump under a config that leaves requireMajorConfirmation out, which
\* the user declined.
C18_Witness ==
    /\ MajorGuarded
    /\ project.configFile.exists
    /\ project.configFile.requireMajorConfirmation = "omitted"
    /\ pub.prompted /\ ~pub.confirmed
    /\ pub.at = "exited" /\ pub.exitCode = 0

-----------------------------------------------------------------------------
(***************************************************************************)
(* Claims relating getDependencyOrder to topologicalSort, checked under    *)
(* SpecGraph.                                                              *)
(***************************************************************************)

\* The position of the package named n in the array getDependencyOrder returned.
DepsPos(ds, n) == CHOOSE k \in 1..Len(ds) : ds[k].name = n

\* Every package of ds is in sorted, and the pairs of ds taken from `pairs`
\* stand in sorted in the relative order they have in ds.
AgreesWithSort(ds, sorted, pairs) ==
    /\ Range(ds) \subseteq Range(sorted)
    /\ \A k, m \in 1..Len(ds) :
          (k < m /\ <<ds[k].name, ds[m].name>> \in pairs) =>
              SortedPos(sorted, ds[k].name) < SortedPos(sorted, ds[m].name)

\* The pairs of names of which one is reachable from the other by one or more
\* in-graph dependsOn edges.
Related(pkgs) ==
    {<<n, m>> \in NamesOf(pkgs) \X NamesOf(pkgs) :
        n \in TransitiveDeps(pkgs, m) \/ m \in TransitiveDeps(pkgs, n)}

RECURSIVE LaterRecordsOnly(_, _)
LaterRecordsOnly(pkgs, i) ==
    IF i > Len(pkgs) THEN <<>>
    ELSE LET rest == LaterRecordsOnly(pkgs, i + 1)
         IN  IF \E j \in (i + 1)..Len(pkgs) : pkgs[j].name = pkgs[i].name
             THEN rest
             ELSE <<pkgs[i]>> \o rest

\* C22: on a list in which two records share a name, topologicalSort and
\* getDependencyOrder produce the result they produce on the list that holds
\* only the later record of every name.
C22_LastWriteWins ==
    ~DistinctNames(packages) =>
        /\ pc = "sorted" =>
              sortResult = topologicalSort(LaterRecordsOnly(packages, 1))
        /\ pc = "ordered" =>
              deps = getDependencyOrder(targetPackage, LaterRecordsOnly(packages, 1))

\* The half of C22 about getDependencyOrder alone.
C22_WalkIsLastWriteWins ==
    (pc = "ordered" /\ ~DistinctNames(packages)) =>
        deps = getDependencyOrder(targetPackage, LaterRecordsOnly(packages, 1))

\* On every list in which two records share a name topologicalSort throws,
\* whether or not the later records contain a cycle.
C22_SortThrowsOnRepeatedName ==
    (pc = "sorted" /\ ~DistinctNames(packages)) => sortResult.threw

-----------------------------------------------------------------------------
(***************************************************************************)
(* Claims about when publishCommand writes the hash store, checked under   *)
(* SpecPublish.                                                            *)
(***************************************************************************)

\* The position of the first step of that kind in the invocation, 0 when it
\* has none.
StepPos(kind) ==
    IF kind \in Kinds(pub.steps)
    THEN CHOOSE i \in 1..Len(pub.steps) :
            pub.steps[i].kind = kind /\ \A j \in 1..(i - 1) : pub.steps[j].kind # kind
    ELSE 0

\* `pnpm publish` of the current invocation closed with code 0.
PublishSucceeded ==
    \E i \in 1..Len(pub.steps) : pub.steps[i] = Step("publish", TRUE)

\* An entry that was in the store before the first invocation: no bump leads
\* back to the version the project started with.
Preexisting(e) == e.version = InitialVersion

\* C23: publishCommand writes the store only after `pnpm publish` succeeded.
\* In an invocation that has not got that far, or that ended at a failed build,
\* script, duplicate check, bump, tag or publish, the store is as the
\* invocation found it; once the publish succeeded the store is what
\* savePackageHash makes of it with the post-bump version and the hash computed
\* before the bump; and every entry the store holds for the package that was
\* not there before the first invocation has a version that was published to
\* the registry.
C23_StoreWrittenOnlyAfterPublish ==
    pub.at # "idle" =>
        /\ ~PublishSucceeded => file = pub.start.file
        /\ PublishSucceeded =>
              /\ file = savePackageHash(pub.start.file, PublishedPackage,
                                        pub.newVersion, pub.currentHash).file
              /\ pub.newVersion = NextVersion(pub.start.repo.version, pub.versionType)
              /\ pub.newVersion = repo.version
              /\ pub.newVersion \in repo.registry
              /\ pub.currentHash = repo.dist
              /\ 0 < StepPos("hash") /\ StepPos("hash") < StepPos("bump")
              /\ StepPos("publish") < StepPos("save")
        /\ "save" \in Kinds(pub.steps) => PublishSucceeded
        /\ \A e \in EntriesIn(file, PublishedPackage) :
              Preexisting(e) \/ e.version \in repo.registry

\* A second invocation whose `pnpm publish` failed after the bump and the tag
\* succeeded, in a project whose first invocation published and recorded a
\* build: the store holds the first invocation's entry and nothing of the
\* second.
C23_Witness ==
    /\ pub.runs = 2
    /\ pub.at = "exited"
    /\ pub.steps[Len(pub.steps)] = Step("publish", FALSE)
    /\ Step("tag", TRUE) \in Range(pub.steps)
    /\ file = pub.start.file
    /\ \E e \in EntriesIn(file, PublishedPackage) :
          ~Preexisting(e) /\ e.version \in repo.registry
    /\ repo.version \notin VersionKeys(file, PublishedPackage)

=============================================================================
